---- MODULE Spec2Model ----
(***************************************************************************)
(* A model of the MCMC diagnostics of PINTS (pints/_diagnostics.py) and of *)
(* the results wrapper built on them (pints/_mcmc/_results.py).            *)
(*                                                                         *)
(* Four specifications, one per unit of code:                              *)
(*   SpecAcn      autocorrelate_negative on a given sequence               *)
(*   SpecEss      effective_sample_size (with ess_single_param,            *)
(*                autocorrelation, autocorrelate_negative)                 *)
(*   SpecRhat     rhat (with _within and _between)                         *)
(*   SpecResults  the MCMCResults object and its methods                   *)
(*                                                                         *)
(* Floating point numbers are modelled as exact fractions <<num, den>>     *)
(* with den > 0; den = 0 marks numpy's non-finite values: <<0, 0>> is nan, *)
(* <<1, 0>> is +inf and <<-1, 0>> is -inf.                                 *)
(***************************************************************************)
EXTENDS Integers, Sequences, FiniteSets

VARIABLES
    \* autocorrelate_negative(autocorrelation)
    acn_pc, acn_arg, acn_ret,
    \* effective_sample_size(samples)
    ess_pc, samples, ess_i, ess_ret, ess_err, ess_calls,
    \* rhat(chains, warm_up)
    rhat_pc, rhat_arg, chains, warm_up, n, w, b, rhat_ret, rhat_err,
    \* an MCMCResults instance and the last call made on it
    r_chains, r_num_params, r_time, r_parameter_names, r_fields,
    r_summary_list, r_last, r_computes, r_direct, r_returned

acn_vars == <<acn_pc, acn_arg, acn_ret>>
ess_vars == <<ess_pc, samples, ess_i, ess_ret, ess_err, ess_calls>>
rhat_vars == <<rhat_pc, rhat_arg, chains, warm_up, n, w, b, rhat_ret, rhat_err>>
res_vars == <<r_chains, r_num_params, r_time, r_parameter_names, r_fields,
              r_summary_list, r_last, r_computes, r_direct, r_returned>>
vars == <<acn_vars, ess_vars, rhat_vars, res_vars>>

-----------------------------------------------------------------------------
(* Bounds of the model.                                                    *)

\* longest autocorrelation sequence handed to autocorrelate_negative
MaxAcLen == 4
\* most rows of a sample matrix handed to effective_sample_size
MaxEssSamples == 4
\* most parameters (columns) of a sample matrix or of a chain collection
MaxParams == 2
\* most chains handed to rhat
MaxChains == 2
\* most samples per chain handed to rhat
MaxSamples == 6
\* warm_up is drawn from the multiples of 1 / WarmDen
WarmDen == 4
\* most chains and most samples per chain held by an MCMCResults
MaxResChains == 2
MaxResSamples == 2
\* most executions of make_summary on one MCMCResults
MaxComputes == 3

-----------------------------------------------------------------------------
(* Floating point values.                                                  *)

RECURSIVE GCD(_, _)
GCD(x, y) == IF y = 0 THEN x ELSE GCD(y, x % y)

Abs(k) == IF k < 0 THEN -k ELSE k

\* the same value in lowest terms (equal values get one representation)
Normalize(a) ==
    IF a[2] = 0 \/ a[1] = 0 THEN (IF a[2] = 0 THEN a ELSE <<0, 1>>)
    ELSE <<a[1] \div GCD(Abs(a[1]), a[2]), a[2] \div GCD(Abs(a[1]), a[2])>>

NaN == <<0, 0>>
PosInf == <<1, 0>>
NegInf == <<-1, 0>>

Float(k) == <<k, 1>>
Frac(k, d) == Normalize(<<k, d>>)
IsFinite(a) == a[2] > 0
IsNaN(a) == a = NaN
IsInf(a) == a[2] = 0 /\ a[1] # 0

Sign(k) == IF k > 0 THEN 1 ELSE IF k < 0 THEN -1 ELSE 0

\* mutation: the comparison a <= 0 in place of a < 0
FLessOrEqual0(a) == IF a[2] > 0 THEN a[1] <= 0 ELSE a = <<-1, 0>>

\* a < 0 as Python evaluates it: False when a is nan
FLess0(a) == IF IsFinite(a) THEN a[1] < 0 ELSE a = NegInf

FAdd(a, c) ==
    IF IsNaN(a) \/ IsNaN(c) THEN NaN
    ELSE IF IsFinite(a) /\ IsFinite(c) THEN Normalize(<<a[1] * c[2] + c[1] * a[2], a[2] * c[2]>>)
    ELSE IF IsFinite(a) THEN c
    ELSE IF IsFinite(c) THEN a
    ELSE IF a = c THEN a ELSE NaN

FMul(a, c) ==
    IF IsNaN(a) \/ IsNaN(c) THEN NaN
    ELSE IF IsFinite(a) /\ IsFinite(c) THEN Normalize(<<a[1] * c[1], a[2] * c[2]>>)
    ELSE IF Sign(a[1]) * Sign(c[1]) = 0 THEN NaN
    ELSE <<Sign(a[1]) * Sign(c[1]), 0>>

\* a / c on numpy floats: a zero divisor gives inf or nan (with a warning),
\* never an exception
FDiv(a, c) ==
    IF IsNaN(a) \/ IsNaN(c) THEN NaN
    ELSE IF IsFinite(a) /\ IsFinite(c) THEN
        IF c[1] = 0 THEN <<Sign(a[1]), 0>>
        ELSE Normalize(<<a[1] * c[2] * Sign(c[1]), a[2] * c[1] * Sign(c[1])>>)
    ELSE IF IsFinite(c) THEN (IF c[1] < 0 THEN <<-a[1], 0>> ELSE a)
    ELSE IF IsFinite(a) THEN Float(0)
    ELSE NaN

\* np.sqrt(a): the model keeps the radicand; nan and inf pass through
\* sqrt, a negative radicand gives nan
FSqrt(a) == IF IsFinite(a) /\ a[1] < 0 THEN NaN ELSE a

RECURSIVE FSum(_)
FSum(s) == IF s = <<>> THEN Float(0) ELSE FAdd(Head(s), FSum(Tail(s)))

RECURSIVE IntSum(_)
IntSum(s) == IF s = <<>> THEN 0 ELSE Head(s) + IntSum(Tail(s))

-----------------------------------------------------------------------------
(* Python sequence slicing.                                                *)

Min(x, y) == IF x < y THEN x ELSE y
Max(x, y) == IF x > y THEN x ELSE y

\* a slice index brought into 0 .. len: negative indices count from the end
ClipIndex(idx, len) == IF idx < 0 THEN Max(idx + len, 0) ELSE Min(idx, len)

\* s[start:stop] for 0-based start and stop
PySlice(s, start, stop) ==
    SubSeq(s, ClipIndex(start, Len(s)) + 1, ClipIndex(stop, Len(s)))
\* s[start:]
PySliceFrom(s, start) == SubSeq(s, ClipIndex(start, Len(s)) + 1, Len(s))
\* s[:stop]
PySliceTo(s, stop) == SubSeq(s, 1, ClipIndex(stop, Len(s)))

-----------------------------------------------------------------------------
(* numpy arrays: [ndim, shape, data].  A 2-dimensional array holds its rows *)
(* as a sequence of sequences; a 3-dimensional array of chains holds, for  *)
(* each chain, the sequence of its samples, each sample a sequence of      *)
(* parameter values.  Arrays of another rank carry no data in the model:   *)
(* the code reads only their ndim and shape.                               *)

Array(nd, shp, dat) == [ndim |-> nd, shape |-> shp, data |-> dat]

\* samples[:, i] for a 0-based column index i
Column(a, i) == [r \in 1..a.shape[1] |-> a.data[r][i + 1]]

-----------------------------------------------------------------------------
(* pints/_diagnostics.py: autocorrelation and effective sample size.       *)

\* len(x) * (x - np.mean(x)): the centred sequence, scaled to stay integral
Centred(x) == [i \in 1..Len(x) |-> Len(x) * x[i] - IntSum(x)]

\* sum of the products of the entries of d that lie k apart
RECURSIVE LagProduct(_, _, _)
LagProduct(d, k, i) ==
    IF i + k > Len(d) THEN 0
    ELSE d[i] * d[i + k] + LagProduct(d, k, i + 1)

\* np.correlate(x, x, mode='full') of the centred sequence: entry j (1-based)
\* holds lag j - len(x); 2 * len(x) - 1 entries
CorrelateFull(d) == [j \in 1..(2 * Len(d) - 1) |-> LagProduct(d, Abs(j - Len(d)), 1)]

\* autocorrelation(x): the division by std(x) * sqrt(len(x)) turns the lag
\* products into fractions of the lag-0 product; a constant x divides 0 by 0
autocorrelation(x) ==
    LET d == Centred(x)
        full == CorrelateFull(d)
        norm == LagProduct(d, 0, 1)
        result == [j \in 1..Len(full) |->
                      IF norm = 0 THEN FDiv(Float(0), Float(0))
                      ELSE Frac(full[j], norm)]
    IN  PySliceFrom(result, Len(result) \div 2)

\* the loop of autocorrelate_negative from entry i (1-based) with counter T
RECURSIVE AcnLoop(_, _, _)
AcnLoop(ac, i, T) ==
    IF i > Len(ac) THEN T
    ELSE IF FLess0(ac[i]) THEN T - 1
    ELSE AcnLoop(ac, i + 1, T + 1)

autocorrelate_negative(ac) == AcnLoop(ac, 1, 1)

ess_single_param(x) ==
    LET rho == autocorrelation(x)
        T == autocorrelate_negative(rho)
    IN  FDiv(Float(Len(x)),
             FAdd(Float(1), FMul(Float(2), FSum(PySlice(rho, 0, T)))))

\* the unpacking n_samples, n_params = samples.shape fails
ShapeUnpackFails(a) == Len(a.shape) # 2
\* mutation: the check n_samples < 1 in place of n_samples < 2
TooFewSamplesOffByOne(n_samples) == n_samples < 1
TooFewSamples(n_samples) == n_samples < 2

-----------------------------------------------------------------------------
(* SpecAcn: autocorrelate_negative applied to a given sequence.            *)

AcValues == {<<-1, 1>>, <<-1, 2>>, <<0, 1>>, <<1, 2>>, <<1, 1>>}

AcnIdle == acn_pc = "idle" /\ acn_arg = <<>> /\ acn_ret = 0

AcnInit ==
    /\ acn_pc = "call"
    /\ \E k \in 1..MaxAcLen : acn_arg \in [1..k -> AcValues]
    /\ acn_ret = 0

AcnCall ==
    /\ acn_pc = "call"
    /\ acn_ret' = autocorrelate_negative(acn_arg)
    /\ acn_pc' = "done"
    /\ UNCHANGED acn_arg
    /\ UNCHANGED <<ess_vars, rhat_vars, res_vars>>

-----------------------------------------------------------------------------
(* SpecEss: effective_sample_size applied to a given array.                *)

SampleValues == {0, 1}

EssIdle ==
    /\ ess_pc = "idle" /\ samples = Array(0, <<>>, <<>>) /\ ess_i = 0
    /\ ess_ret = <<>> /\ ess_err = "none" /\ ess_calls = 0

\* the arrays of rank nd handed to effective_sample_size: every matrix of k
\* rows and p columns over SampleValues, or an array of rank 1 or 3
EssInputs(nd, k, p) ==
    IF nd = 2 THEN {Array(2, <<k, p>>, d) : d \in [1..k -> [1..p -> SampleValues]]}
    ELSE IF nd = 1 THEN {Array(1, <<k>>, <<>>)}
    ELSE {Array(3, <<k, p, 1>>, <<>>)}

EssInit ==
    /\ ess_pc = "unpack"
    /\ \E nd \in 1..3, k \in 0..MaxEssSamples, p \in 0..MaxParams :
          samples \in EssInputs(nd, k, p)
    /\ ess_i = 0 /\ ess_ret = <<>> /\ ess_err = "none" /\ ess_calls = 0

\* try: n_samples, n_params = samples.shape / except: raise ValueError
EssUnpackShape ==
    /\ ess_pc = "unpack"
    /\ IF ShapeUnpackFails(samples)
       THEN ess_pc' = "done" /\ ess_err' = "ValueError: Samples must be given as a 2d array."
       ELSE ess_pc' = "check" /\ ess_err' = ess_err
    /\ UNCHANGED <<samples, ess_i, ess_ret, ess_calls>>
    /\ UNCHANGED <<acn_vars, rhat_vars, res_vars>>

\* if n_samples < 2: raise ValueError
EssCheckSamples ==
    /\ ess_pc = "check"
    /\ IF TooFewSamples(samples.shape[1])
       THEN ess_pc' = "done" /\ ess_err' = "ValueError: At least two samples must be given."
       ELSE ess_pc' = "loop" /\ ess_err' = ess_err
    /\ UNCHANGED <<samples, ess_i, ess_ret, ess_calls>>
    /\ UNCHANGED <<acn_vars, rhat_vars, res_vars>>

\* mutation: every element of the comprehension reads column 0
EssColumnFirst(a, i) == Column(a, 0)

\* the column the list comprehension hands to ess_single_param at index i
EssColumnAt(a, i) == Column(a, i)

\* one element of [ess_single_param(samples[:, i]) for i in range(0, n_params)]
EssColumn ==
    /\ ess_pc = "loop"
    /\ ess_i < samples.shape[2]
    /\ ess_ret' = Append(ess_ret, ess_single_param(EssColumnAt(samples, ess_i)))
    /\ ess_i' = ess_i + 1
    /\ ess_calls' = ess_calls + 1
    /\ UNCHANGED <<ess_pc, samples, ess_err>>
    /\ UNCHANGED <<acn_vars, rhat_vars, res_vars>>

EssReturn ==
    /\ ess_pc = "loop"
    /\ ess_i >= samples.shape[2]
    /\ ess_pc' = "done"
    /\ UNCHANGED <<samples, ess_i, ess_ret, ess_err, ess_calls>>
    /\ UNCHANGED <<acn_vars, rhat_vars, res_vars>>

-----------------------------------------------------------------------------
(* pints/_diagnostics.py: rhat and its variance helpers.  A collection of  *)
(* chains is an array whose data holds, per chain, the sequence of its     *)
(* samples; a sample is the sequence of its parameter values (one value    *)
(* for a 2-dimensional collection, whose results are scalars).             *)

FSub(a, c) == FAdd(a, FMul(Float(-1), c))

\* the values of parameter q along chain j
ParamSeq(a, j, q) == [i \in 1..Len(a.data[j]) |-> a.data[j][i][q]]

\* number of parameters held per sample
NumParams(a) == IF a.ndim = 3 THEN a.shape[3] ELSE 1

\* np.var(x, ddof=1) of a sequence of integers
VarInts(x) ==
    FDiv(Float(Len(x) * IntSum([i \in 1..Len(x) |-> x[i] * x[i]]) - IntSum(x) * IntSum(x)),
         Float(Len(x) * (Len(x) - 1)))

\* np.mean(x) of a sequence of floats
MeanFloats(x) == FDiv(FSum(x), Float(Len(x)))

\* np.var(x, ddof=1) of a sequence of floats
VarFloats(x) ==
    FDiv(FSum([j \in 1..Len(x) |->
                  FMul(FSub(x[j], MeanFloats(x)), FSub(x[j], MeanFloats(x)))]),
         Float(Len(x) - 1))

\* _within(chains): per parameter, the mean over the chains of the unbiased
\* variance of each chain
within(a) ==
    [q \in 1..NumParams(a) |->
        MeanFloats([j \in 1..Len(a.data) |-> VarInts(ParamSeq(a, j, q))])]

\* _between(chains): per parameter, n times the unbiased variance over the
\* chains of the chain means
between(a) ==
    [q \in 1..NumParams(a) |->
        FMul(Float(a.shape[2]),
             VarFloats([j \in 1..Len(a.data) |->
                           FDiv(Float(IntSum(ParamSeq(a, j, q))),
                                Float(Len(a.data[j])))]))]

\* chains[:, start:]
TrimFront(a, start) ==
    [a EXCEPT !.data = [j \in 1..Len(a.data) |-> PySliceFrom(a.data[j], start)],
              !.shape[2] = a.shape[2] - ClipIndex(start, a.shape[2])]

\* chains[:, :k]
FirstColumns(a, k) ==
    [a EXCEPT !.data = [j \in 1..Len(a.data) |-> PySliceTo(a.data[j], k)],
              !.shape[2] = ClipIndex(k, a.shape[2])]

\* mutation: chains[:, k:] in place of chains[:, -k:]
ColumnsFrom(a, k) ==
    [a EXCEPT !.data = [j \in 1..Len(a.data) |-> PySliceFrom(a.data[j], k)],
              !.shape[2] = a.shape[2] - ClipIndex(k, a.shape[2])]

\* chains[:, -k:]
LastColumns(a, k) ==
    [a EXCEPT !.data = [j \in 1..Len(a.data) |-> PySliceFrom(a.data[j], -k)],
              !.shape[2] = a.shape[2] - ClipIndex(-k, a.shape[2])]

\* np.vstack([x, y]) of two arrays of equal trailing shape
vstack(x, y) ==
    [x EXCEPT !.data = x.data \o y.data, !.shape[1] = x.shape[1] + y.shape[1]]

\* np.vstack([chains[:, :k], chains[:, -k:]])
SplitChains(a, k) == vstack(FirstColumns(a, k), LastColumns(a, k))

\* the rank check of rhat fails
BadRank(a) == ~(a.ndim = 2 \/ a.ndim = 3)
\* the chain count check of rhat fails
TooFewChains(a) == a.shape[1] < 2
\* warm_up > 1 or warm_up < 0, for warm_up = wu / WarmDen
BadWarmUp(wu) == wu > WarmDen \/ wu < 0
\* int(n * warm_up) for warm_up = wu / WarmDen in [0, 1]
WarmUpSamples(len, wu) == (len * wu) \div WarmDen
\* n // 2
HalfLength(len) == len \div 2
\* mutation: the check n < 1 in place of n < 2
TooShortOffByOne(len) == len < 1
\* the length check after the split fails
TooShort(len) == len < 2

\* np.sqrt((n - 1) / n + b / (w * n)), per parameter
CombineRhat(len, bb, ww) ==
    [q \in 1..Len(ww) |->
        FSqrt(FAdd(Frac(len - 1, len), FDiv(bb[q], FMul(ww[q], Float(len)))))]

\* the expression of rhat raises ZeroDivisionError: only the division of the
\* Python integers (n - 1) / n can; b / (w * n) divides numpy floats
CombineRaises(len) == len = 0

-----------------------------------------------------------------------------
(* SpecRhat: rhat applied to a given collection of chains and warm_up.     *)

\* The chains handed to rhat follow one of these courses:
\*   1 constant 0, 2 constant 1, 3 rising (sample i is i),
\*   4 a step (0 in the first half of the chain, 1 after it)
ChainKinds == {1, 2, 3, 4}

\* sample i (1-based) of a chain of len samples that follows course kind
Sample(kind, i, len) ==
    IF kind = 1 THEN 0
    ELSE IF kind = 2 THEN 1
    ELSE IF kind = 3 THEN i
    ELSE IF 2 * i > len THEN 1 ELSE 0

\* parameter q of a chain follows the course q - 1 places after the chain's
KindOf(kind, q) == ((kind + q - 2) % Cardinality(ChainKinds)) + 1

ChainData(kinds, len, p) ==
    [j \in 1..Len(kinds) |->
        [i \in 1..len |-> [q \in 1..p |-> Sample(KindOf(kinds[j], q), i, len)]]]

\* the arrays of rank nd handed to rhat: m chains of len samples of p
\* parameters, each chain following one of the courses; arrays of rank 1
\* and 4 carry no data
RhatInputs(nd, m, len, p) ==
    IF nd = 2 THEN {Array(2, <<m, len>>, ChainData(kinds, len, 1)) : kinds \in [1..m -> ChainKinds]}
    ELSE IF nd = 3 THEN {Array(3, <<m, len, p>>, ChainData(kinds, len, p)) : kinds \in [1..m -> ChainKinds]}
    ELSE IF nd = 1 THEN {Array(1, <<len>>, <<>>)}
    ELSE {Array(4, <<m, len, p, 1>>, <<>>)}

WarmUps == (-1)..(WarmDen + 1)

NoArray == Array(0, <<>>, <<>>)

RhatIdle ==
    /\ rhat_pc = "idle" /\ rhat_arg = NoArray /\ chains = NoArray /\ warm_up = 0
    /\ n = 0 /\ w = <<>> /\ b = <<>> /\ rhat_ret = <<>> /\ rhat_err = "none"

RhatInit ==
    /\ rhat_pc = "check_ndim"
    /\ \E nd \in 1..4, m \in 0..MaxChains, len \in 0..MaxSamples, p \in 1..MaxParams :
          rhat_arg \in RhatInputs(nd, m, len, p)
    /\ chains = rhat_arg
    /\ warm_up \in WarmUps
    /\ n = 0 /\ w = <<>> /\ b = <<>> /\ rhat_ret = <<>> /\ rhat_err = "none"

RhatRaise(msg) ==
    /\ rhat_pc' = "done"
    /\ rhat_err' = msg
    /\ UNCHANGED <<rhat_arg, chains, warm_up, n, w, b, rhat_ret>>

RhatGoto(label) ==
    /\ rhat_pc' = label
    /\ UNCHANGED <<rhat_arg, chains, warm_up, n, w, b, rhat_ret, rhat_err>>

\* if not (chains.ndim == 2 or chains.ndim == 3): raise ValueError
RhatCheckNdim ==
    /\ rhat_pc = "check_ndim"
    /\ IF BadRank(chains)
       THEN RhatRaise("ValueError: Dimension of chains")
       ELSE RhatGoto("check_chains")
    /\ UNCHANGED <<acn_vars, ess_vars, res_vars>>

\* if chains.shape[0] < 2: raise ValueError
RhatCheckChains ==
    /\ rhat_pc = "check_chains"
    /\ IF TooFewChains(chains)
       THEN RhatRaise("ValueError: Number of chains")
       ELSE RhatGoto("check_warm_up")
    /\ UNCHANGED <<acn_vars, ess_vars, res_vars>>

\* if warm_up > 1 or warm_up < 0: raise ValueError
RhatCheckWarmUp ==
    /\ rhat_pc = "check_warm_up"
    /\ IF BadWarmUp(warm_up)
       THEN RhatRaise("ValueError: warm_up only takes values in [0,1]")
       ELSE RhatGoto("trim")
    /\ UNCHANGED <<acn_vars, ess_vars, res_vars>>

\* n = chains.shape[1]; chains = chains[:, int(n * warm_up):]; n = chains.shape[1]
RhatTrim ==
    /\ rhat_pc = "trim"
    /\ chains' = TrimFront(chains, WarmUpSamples(chains.shape[2], warm_up))
    /\ n' = chains'.shape[2]
    /\ rhat_pc' = "halve"
    /\ UNCHANGED <<rhat_arg, warm_up, w, b, rhat_ret, rhat_err>>
    /\ UNCHANGED <<acn_vars, ess_vars, res_vars>>

\* n = n // 2; if n < 2: raise ValueError
RhatHalve ==
    /\ rhat_pc = "halve"
    /\ n' = HalfLength(n)
    /\ IF TooShort(n')
       THEN rhat_pc' = "done" /\ rhat_err' = "ValueError: Number of samples per chain"
       ELSE rhat_pc' = "split" /\ rhat_err' = rhat_err
    /\ UNCHANGED <<rhat_arg, chains, warm_up, w, b, rhat_ret>>
    /\ UNCHANGED <<acn_vars, ess_vars, res_vars>>

\* chains = np.vstack([chains[:, :n], chains[:, -n:]])
RhatSplit ==
    /\ rhat_pc = "split"
    /\ chains' = SplitChains(chains, n)
    /\ rhat_pc' = "within"
    /\ UNCHANGED <<rhat_arg, warm_up, n, w, b, rhat_ret, rhat_err>>
    /\ UNCHANGED <<acn_vars, ess_vars, res_vars>>

\* w = _within(chains)
RhatWithin ==
    /\ rhat_pc = "within"
    /\ w' = within(chains)
    /\ rhat_pc' = "between"
    /\ UNCHANGED <<rhat_arg, chains, warm_up, n, b, rhat_ret, rhat_err>>
    /\ UNCHANGED <<acn_vars, ess_vars, res_vars>>

\* b = _between(chains)
RhatBetween ==
    /\ rhat_pc = "between"
    /\ b' = between(chains)
    /\ rhat_pc' = "combine"
    /\ UNCHANGED <<rhat_arg, chains, warm_up, n, w, rhat_ret, rhat_err>>
    /\ UNCHANGED <<acn_vars, ess_vars, res_vars>>

\* try: rhat = np.sqrt(...) / except ZeroDivisionError: raise; return rhat
RhatCombine ==
    /\ rhat_pc = "combine"
    /\ IF CombineRaises(n)
       THEN rhat_err' = "ZeroDivisionError: Vanishing mean within-chain variance" /\ rhat_ret' = rhat_ret
       ELSE rhat_ret' = CombineRhat(n, b, w) /\ rhat_err' = rhat_err
    /\ rhat_pc' = "done"
    /\ UNCHANGED <<rhat_arg, chains, warm_up, n, w, b>>
    /\ UNCHANGED <<acn_vars, ess_vars, res_vars>>

-----------------------------------------------------------------------------
(* pints/_mcmc/_results.py: MCMCResults.                                   *)
(*                                                                         *)
(* r_chains holds the shape <<n_samples, n_params>> of every chain given   *)
(* to the constructor.  r_fields maps each attribute that make_summary     *)
(* assigns to [gen, val]: gen is the number of the make_summary execution  *)
(* that assigned it last (0: the attribute does not exist on the object),  *)
(* val describes its content per parameter.  r_computes counts the         *)
(* executions of make_summary, r_direct the direct calls of make_summary,  *)
(* r_returned tells whether a call of make_summary, summary or            *)
(* print_summary has returned normally.  r_last is the last call and its   *)
(* outcome.                                                                *)

Attrs == {"_mean", "_std", "_quantiles", "_ess", "_ess_per_second",
          "_num_chains", "_rhat"}

\* the names that pints/_diagnostics.py defines
DiagnosticsNames == {"autocorrelation", "autocorrelate_negative", "ess_single_param",
                     "effective_sample_size", "_within", "_between", "rhat"}

Unset == [gen |-> 0, val |-> <<>>]

\* np.vstack(self._chains): the shape of the stacked sample matrix
StackedShape(chs) == <<IntSum([j \in 1..Len(chs) |-> chs[j][1]]), chs[1][2]>>

\* the default parameter names of __init__
DefaultNames(p) == [i \in 1..p |-> <<"param", i>>]
\* parameter names given by the caller
GivenNames(p) == [i \in 1..p |-> <<"given", i>>]

PerParam(what, p) == [i \in 1..p |-> what]

\* the exception that diagnostics.effective_sample_size(stacked) raises, if any
EssRaises(shape) ==
    IF ShapeUnpackFails(Array(2, shape, <<>>)) \/ TooFewSamples(shape[1])
    THEN "ValueError" ELSE "none"

\* the exception that looking up diagnostics.<name> raises, if any
LookupRaises(name) == IF name \in DiagnosticsNames THEN "none" ELSE "AttributeError"

\* the rows that make_summary appends, one per parameter
SummaryRows(p, time, names) ==
    [i \in 1..p |->
        [name |-> IF time # "None" THEN names[i] ELSE <<"param", i>>,
         param |-> i,
         columns |-> IF time # "None" THEN 11 ELSE 10]]

\* make_summary run on the object's state: the fields and the summary list
\* it leaves, and the exception it ends with ("none": it returns)
MakeSummary(chs, p, time, names, fields, list, gen) ==
    LET f1 == [fields EXCEPT !["_mean"] = [gen |-> gen, val |-> PerParam("mean", p)],
                             !["_std"] = [gen |-> gen, val |-> PerParam("std", p)],
                             !["_quantiles"] = [gen |-> gen, val |-> PerParam("quantiles", p)]]
        f2 == [f1 EXCEPT !["_ess"] = [gen |-> gen, val |-> PerParam("ess", p)]]
        f3 == IF time # "None"
              THEN [f2 EXCEPT !["_ess_per_second"] = [gen |-> gen, val |-> PerParam("ess/time", p)]]
              ELSE f2
        f4 == [f3 EXCEPT !["_num_chains"] = [gen |-> gen, val |-> <<"len(chains)">>]]
        f5 == [f4 EXCEPT !["_rhat"] = [gen |-> gen, val |-> PerParam("rhat", p)]]
        f6 == [f4 EXCEPT !["_rhat"] = [gen |-> gen, val |-> PerParam("NA", p)]]
    IN  IF EssRaises(StackedShape(chs)) # "none"
        THEN [fields |-> f1, list |-> list, raised |-> EssRaises(StackedShape(chs))]
        ELSE IF Len(chs) > 1 /\ LookupRaises("rhat_all_params") # "none"
        THEN [fields |-> f4, list |-> list, raised |-> LookupRaises("rhat_all_params")]
        ELSE [fields |-> IF Len(chs) > 1 THEN f5 ELSE f6,
              list |-> list \o SummaryRows(p, time, names),
              raised |-> "none"]

-----------------------------------------------------------------------------
(* SpecResults: calls on one MCMCResults instance.                         *)

ResIdle ==
    /\ r_chains = <<>> /\ r_num_params = 0 /\ r_time = "None"
    /\ r_parameter_names = <<>> /\ r_fields = [a \in Attrs |-> Unset]
    /\ r_summary_list = <<>>
    /\ r_last = [op |-> "idle", outcome |-> "none", gen |-> 0, val |-> <<>>, computed |-> FALSE]
    /\ r_computes = 0 /\ r_direct = 0 /\ r_returned = FALSE

\* the state __init__ leaves, for the arguments it accepts
ResInit ==
    /\ \E c \in 1..MaxResChains, len \in 1..MaxResSamples, p \in 1..MaxParams :
          /\ r_chains = [j \in 1..c |-> <<len, p>>]
          /\ r_num_params = p
          /\ r_parameter_names \in {DefaultNames(p), GivenNames(p)}
    /\ r_time \in {"None", "positive"}
    /\ r_fields = [a \in Attrs |-> Unset]
    /\ r_summary_list = <<>>
    /\ r_last = [op |-> "__init__", outcome |-> "ok", gen |-> 0, val |-> <<>>, computed |-> FALSE]
    /\ r_computes = 0 /\ r_direct = 0 /\ r_returned = FALSE

\* return self.<attr>: AttributeError when the attribute was never assigned
Access(op, attr) ==
    /\ r_last' = IF r_fields[attr].gen = 0
                 THEN [op |-> op, outcome |-> "AttributeError", gen |-> 0, val |-> <<>>,
                       computed |-> FALSE]
                 ELSE [op |-> op, outcome |-> "ok", gen |-> r_fields[attr].gen,
                       val |-> r_fields[attr].val, computed |-> FALSE]
    /\ UNCHANGED <<r_chains, r_num_params, r_time, r_parameter_names, r_fields,
                   r_summary_list, r_computes, r_direct, r_returned>>
    /\ UNCHANGED <<acn_vars, ess_vars, rhat_vars>>

CallMean == Access("mean", "_mean")
CallStd == Access("std", "_std")
CallQuantiles == Access("quantiles", "_quantiles")
CallRhat == Access("rhat", "_rhat")
CallEss == Access("ess", "_ess")
CallEssPerSecond == Access("ess_per_second", "_ess_per_second")

\* the object after make_summary ran as part of call op
RunMakeSummary(op) ==
    LET out == MakeSummary(r_chains, r_num_params, r_time, r_parameter_names,
                           r_fields, r_summary_list, r_computes + 1)
    IN  /\ r_computes < MaxComputes
        /\ r_computes' = r_computes + 1
        /\ r_fields' = out.fields
        /\ r_summary_list' = out.list
        /\ r_returned' = (r_returned \/ out.raised = "none")
        /\ r_last' = [op |-> op,
                      outcome |-> IF out.raised = "none" THEN "ok" ELSE out.raised,
                      gen |-> IF out.raised = "none" THEN r_computes + 1 ELSE 0,
                      val |-> <<>>, computed |-> TRUE]

\* the call returns the stored summary list without computing anything
ReturnStored(op) ==
    /\ r_last' = [op |-> op, outcome |-> "ok", gen |-> r_computes, val |-> <<>>,
                  computed |-> FALSE]
    /\ r_returned' = TRUE
    /\ UNCHANGED <<r_fields, r_summary_list, r_computes>>

CallMakeSummary ==
    /\ RunMakeSummary("make_summary")
    /\ r_direct' = r_direct + 1
    /\ UNCHANGED <<r_chains, r_num_params, r_time, r_parameter_names>>
    /\ UNCHANGED <<acn_vars, ess_vars, rhat_vars>>

\* if self._summary_list == []: self.make_summary(); return self._summary_list
CallSummary ==
    /\ IF r_summary_list = <<>> THEN RunMakeSummary("summary") ELSE ReturnStored("summary")
    /\ UNCHANGED <<r_chains, r_num_params, r_time, r_parameter_names, r_direct>>
    /\ UNCHANGED <<acn_vars, ess_vars, rhat_vars>>

\* if self._summary_list == []: self.make_summary(); print(tabulate(...))
CallPrintSummary ==
    /\ IF r_summary_list = <<>> THEN RunMakeSummary("print_summary")
       ELSE ReturnStored("print_summary")
    /\ UNCHANGED <<r_chains, r_num_params, r_time, r_parameter_names, r_direct>>
    /\ UNCHANGED <<acn_vars, ess_vars, rhat_vars>>

-----------------------------------------------------------------------------
(* The specifications: each runs one unit and leaves the others idle.      *)

InitAcn == AcnInit /\ EssIdle /\ RhatIdle /\ ResIdle
NextAcn == AcnCall
SpecAcn == InitAcn /\ [][NextAcn]_vars

InitEss == AcnIdle /\ EssInit /\ RhatIdle /\ ResIdle
NextEss ==
    \/ EssUnpackShape
    \/ EssCheckSamples
    \/ EssColumn
    \/ EssReturn
SpecEss == InitEss /\ [][NextEss]_vars

InitRhat == AcnIdle /\ EssIdle /\ RhatInit /\ ResIdle
NextRhat ==
    \/ RhatCheckNdim
    \/ RhatCheckChains
    \/ RhatCheckWarmUp
    \/ RhatTrim
    \/ RhatHalve
    \/ RhatSplit
    \/ RhatWithin
    \/ RhatBetween
    \/ RhatCombine
SpecRhat == InitRhat /\ [][NextRhat]_vars

InitResults == AcnIdle /\ EssIdle /\ RhatIdle /\ ResInit
NextResults ==
    \/ CallMean
    \/ CallStd
    \/ CallQuantiles
    \/ CallRhat
    \/ CallEss
    \/ CallEssPerSecond
    \/ CallMakeSummary
    \/ CallSummary
    \/ CallPrintSummary
SpecResults == InitResults /\ [][NextResults]_vars

-----------------------------------------------------------------------------
(* Properties of rhat (SpecRhat).                                          *)

\* the number of samples per chain of the argument of rhat
ArgSamples == IF Len(rhat_arg.shape) >= 2 THEN rhat_arg.shape[2] ELSE 0
\* floor(warm_up * n) and n' = floor((n - floor(warm_up * n)) / 2)
ArgTrimmed == (ArgSamples * warm_up) \div WarmDen
ArgHalf == (ArgSamples - ArgTrimmed) \div 2

RhatInvalid ==
    \/ rhat_arg.ndim \notin {2, 3}
    \/ rhat_arg.shape[1] < 2
    \/ warm_up < 0
    \/ warm_up > WarmDen
    \/ ArgHalf < 2

\* C1: rhat raises an error, before any within-chain or between-chain
\* variance is computed, whenever the rank of chains is not 2 or 3, there
\* are fewer than 2 chains, warm_up is outside [0, 1], or
\* n' = floor((n - floor(warm_up * n)) / 2) is less than 2; so it raises for
\* warm_up = 1 whatever the chain length.
C1_RhatRejectsInvalidInput ==
    RhatInvalid =>
        /\ rhat_pc \notin {"split", "within", "between", "combine"}
        /\ w = <<>> /\ b = <<>> /\ rhat_ret = <<>>
        /\ rhat_pc = "done" => rhat_err # "none"

\* rhat has raised on well-shaped chains of the greatest length with warm_up = 1
C1_Witness ==
    /\ rhat_pc = "done" /\ rhat_err # "none"
    /\ warm_up = WarmDen
    /\ rhat_arg.ndim = 2 /\ rhat_arg.shape[1] >= 2 /\ rhat_arg.shape[2] = MaxSamples

\* C2: rhat fails with an error when the mean within-chain variance W of the
\* split chains is zero; it never returns a NaN or infinite value then.
C2_ZeroWithinVarianceRaises ==
    (rhat_pc = "done" /\ w # <<>> /\ \E q \in 1..Len(w) : w[q] = Float(0)) =>
        /\ rhat_err # "none"
        /\ \A q \in 1..Len(rhat_ret) : IsFinite(rhat_ret[q])

\* C7: for valid input rhat computes W and B on exactly 2m chains of length
\* n' = floor((n - k) / 2), k = floor(warm_up * n): for each chain j the
\* samples k .. k+n'-1 of chain j, and the last n' samples of chain j; no
\* sample below index k is used, nor the middle sample when n - k is odd.
C7_SplitHalves ==
    LET m == rhat_arg.shape[1]
        len == ArgSamples
        k == ArgTrimmed
        h == ArgHalf
        \* the 1-based indices of the samples of a chain that the halves hold
        used == ((k + 1)..(k + h)) \cup ((len - h + 1)..len)
    IN  (rhat_pc \in {"within", "between", "combine"}
            \/ (rhat_pc = "done" /\ rhat_err = "none")) =>
        /\ chains.shape[1] = 2 * m /\ Len(chains.data) = 2 * m
        /\ chains.shape[2] = h
        /\ \A j \in 1..m :
              /\ chains.data[j] = [i \in 1..h |-> rhat_arg.data[j][k + i]]
              /\ chains.data[m + j] = [i \in 1..h |-> rhat_arg.data[j][len - h + i]]
        /\ \A i \in used : i > k
        /\ (len - k) % 2 = 1 => (k + h + 1) \notin used
        /\ w # <<>> => w = within(chains)
        /\ b # <<>> => b = between(chains)

\* rhat has returned for chains that lose samples to the warm-up and keep an
\* odd number of them
C7_Witness ==
    /\ rhat_pc = "done" /\ rhat_err = "none"
    /\ ArgTrimmed > 0
    /\ (ArgSamples - ArgTrimmed) % 2 = 1
    /\ rhat_arg.ndim = 3
    /\ \A q \in 1..Len(rhat_ret) : IsFinite(rhat_ret[q])

-----------------------------------------------------------------------------
(* Properties of autocorrelate_negative (SpecAcn).                         *)

Negatives == {i \in 1..Len(acn_arg) : acn_arg[i][1] < 0}
FirstNegative == CHOOSE i \in Negatives : \A j \in Negatives : i <= j

\* C3: for a sequence that holds a strictly negative value,
\* autocorrelate_negative returns the number of entries before the first
\* strictly negative one (its 0-based index); an entry equal to 0 does not
\* end the run.
C3_StopsAtFirstNegative ==
    (acn_pc = "done" /\ Negatives # {}) => acn_ret = FirstNegative - 1

\* the call has returned for a sequence with a zero before its first negative
C3_Witness ==
    /\ acn_pc = "done"
    /\ Negatives # {} /\ FirstNegative >= 3
    /\ acn_arg[2] = Float(0)
    /\ acn_ret = FirstNegative - 1

\* C4: for a sequence with no strictly negative value,
\* autocorrelate_negative returns the full length of the sequence.
C4_FullLengthWhenNoNegative ==
    (acn_pc = "done" /\ Negatives = {}) => acn_ret = Len(acn_arg)

-----------------------------------------------------------------------------
(* Properties of effective_sample_size (SpecEss).                          *)

\* C5: effective_sample_size of a matrix of shape (n_samples, p) with
\* n_samples >= 2 returns exactly p values, the i-th being ess_single_param
\* of column i alone.
C5_EssPerColumn ==
    (ess_pc = "done" /\ samples.ndim = 2 /\ samples.shape[1] >= 2) =>
        /\ ess_err = "none"
        /\ Len(ess_ret) = samples.shape[2]
        /\ \A i \in 1..samples.shape[2] :
              ess_ret[i] = ess_single_param([r \in 1..samples.shape[1] |-> samples.data[r][i]])

\* the call has returned two different values for two columns
C5_Witness ==
    /\ ess_pc = "done" /\ ess_err = "none"
    /\ samples.shape = <<MaxEssSamples, 2>>
    /\ IsFinite(ess_ret[1]) /\ IsFinite(ess_ret[2])
    /\ ess_ret[1] # ess_ret[2]

\* C6: effective_sample_size raises when its input is not 2-dimensional and
\* when it has fewer than 2 samples, in both cases before ess_single_param
\* is applied to any column.
C6_EssRejectsBadInput ==
    (samples.ndim # 2 \/ samples.shape[1] < 2) =>
        /\ ess_calls = 0 /\ ess_ret = <<>>
        /\ ess_pc # "loop"
        /\ ess_pc = "done" => ess_err # "none"

\* the call has raised on a matrix of one sample and two parameters
C6_Witness ==
    /\ ess_pc = "done"
    /\ samples.ndim = 2 /\ samples.shape = <<1, 2>>
    /\ ess_err = "ValueError: At least two samples must be given."

-----------------------------------------------------------------------------
(* Properties of MCMCResults (SpecResults).                                *)

\* the calls through which a summary statistic is requested
RequestOps ==
    {"mean", "std", "quantiles", "rhat", "ess", "summary"}
        \cup (IF r_time # "None" THEN {"ess_per_second"} ELSE {})

\* C8: the summary statistics are computed lazily on first request and
\* cached: a request through mean(), std(), quantiles(), rhat(), ess(),
\* ess_per_second() or summary() yields the computed value, and later
\* requests do not compute again.
C8_LazyAndCached ==
    r_last.op \in RequestOps =>
        /\ r_last.outcome = "ok"
        /\ r_last.gen >= 1
        /\ r_direct = 0 => r_computes <= 1

\* C9: when the summary is computed over a valid sample matrix, the rhat
\* entry is "NA" once per parameter for exactly one chain and the value of
\* the rhat estimator for two or more chains, and the computation completes
\* without error in both cases.
C9_RhatEntry ==
    (r_last.computed /\ StackedShape(r_chains)[1] >= 2) =>
        /\ r_last.outcome = "ok"
        /\ r_fields["_rhat"].val =
              IF Len(r_chains) = 1 THEN PerParam("NA", r_num_params)
              ELSE PerParam("rhat", r_num_params)

\* C10: once a call of make_summary(), summary() or print_summary() has
\* returned, the stored summary list holds exactly one row per parameter,
\* row i describing parameter i; repeating a call never adds rows.
C10_OneRowPerParameter ==
    r_returned =>
        /\ Len(r_summary_list) = r_num_params
        /\ \A i \in 1..Len(r_summary_list) : r_summary_list[i].param = i

====
